---- MODULE Spec2Model ----
(***************************************************************************)
(* A model of pyparsec/base.py: parser combinators over sequences of       *)
(* tokens.  Parser trees are records, try_parse / parse / possible_next    *)
(* are operators translated method by method, and the state machine        *)
(* applies them to parser trees and inputs drawn from bounded sets.        *)
(***************************************************************************)
EXTENDS Integers, Sequences, FiniteSets, TLC

\* ------------------------------------------------------------------ bounds
\* Longest input sequence.
MaxLen == 3
\* Tokens are 1..NumTokens.
NumTokens == 2
\* Largest n given to not_(p, n).
MaxN == 1

Tokens == 1..NumTokens

\* ------------------------------------------------------------------ values
\* Python values a parser can produce, tagged so that == between values of
\* different types is FALSE.
None == [t |-> "None"]
Tok(x) == [t |-> "tok", x |-> x]
List(vs) == [t |-> "list", items |-> vs]
Dict(name, v) == [t |-> "dict", name |-> name, val |-> v]
Str(s) == [t |-> "str", s |-> s]

\* components[1:] and friends.
Drop(s, n) == SubSeq(s, n + 1, Len(s))
Take(s, n) == SubSeq(s, 1, n)
Toks(s) == [j \in 1..Len(s) |-> Tok(s[j])]

ParseResult(succeeded, value, rest, expects) ==
    [succeeded |-> succeeded, value |-> value, rest |-> rest, expects |-> expects]

\* fail(expects, remaining=None): `remaining or []` turns None, and an empty
\* sequence, into []; a call without remaining passes <<>>.
fail(expects, remaining) == ParseResult(FALSE, None, remaining, expects)

\* ----------------------------------------------------------- parser trees
RECURSIVE try_parse(_, _)
RECURSIVE possible_next(_, _)

only(v) == [kind |-> "only", v |-> v]

\* any_(fake_name=None): the label defaults to ''.
any_ == [kind |-> "any_", fake_name |-> Str("")]

\* not_(p, n=0, fake_name=None)
not_(p, n) == [kind |-> "not_", p |-> p, n |-> n, fake_name |-> Str("")]

\* Flattens.__init__: a child of the same kind is replaced by its children.
Flattens(kind, parsers) ==
    LET RECURSIVE flat(_)
        flat(j) == IF j > Len(parsers) THEN <<>>
                   ELSE (IF parsers[j].kind = kind THEN parsers[j].children
                         ELSE <<parsers[j]>>) \o flat(j + 1)
    IN flat(1)

or_(parsers) == [kind |-> "or_", children |-> Flattens("or_", parsers)]

\* seq(*parsers, throw_away=None)
seq(parsers, throw_away) ==
    [kind |-> "seq", children |-> Flattens("seq", parsers), throw_away |-> throw_away]

\* optional(p, default=None)
optional(p, default) == [kind |-> "optional", p |-> p, default |-> default]

\* transform(f)(p, *args): f is named (with its name argument) or drop.
named(p, name) == [kind |-> "transformer", f |-> "named", p |-> p, name |-> name]
drop(p) == [kind |-> "transformer", f |-> "drop", p |-> p, name |-> ""]

\* many.__init__: probes p on the empty list and logs a warning when it
\* succeeds; the node records whether the warning was logged.
many(p) == [kind |-> "many", p |-> p, warned |-> try_parse(p, <<>>).succeeded]

\* -------------------------------------------------------------- try_parse
only_try_parse(self, components) ==
    IF components # <<>> /\ self.v = components[1]
    THEN ParseResult(TRUE, Tok(components[1]), Drop(components, 1), <<>>)
    ELSE fail(<<Tok(self.v)>>, components)

any_try_parse(self, components) ==
    IF components # <<>>
    THEN ParseResult(TRUE, Tok(components[1]), Drop(components, 1), <<>>)
    ELSE fail(<<self.fake_name>>, components)

\* not_.try_parse slicing from the wrong end: components[:len - n].
not_try_parse_from_end(self, components) ==
    IF try_parse(self.p, components).succeeded \/ Len(components) < self.n
    THEN fail(<<self.fake_name>>, components)
    ELSE ParseResult(TRUE, List(Toks(Take(components, self.n))),
                     Take(components, Len(components) - self.n), <<>>)

\* not_.try_parse testing len(components) <= n.
not_try_parse_le(self, components) ==
    IF try_parse(self.p, components).succeeded \/ Len(components) <= self.n
    THEN fail(<<self.fake_name>>, components)
    ELSE ParseResult(TRUE, List(Toks(Take(components, self.n))),
                     Drop(components, self.n), <<>>)

not_try_parse(self, components) ==
    IF try_parse(self.p, components).succeeded \/ Len(components) < self.n
    THEN fail(<<self.fake_name>>, components)
    ELSE ParseResult(TRUE, List(Toks(Take(components, self.n))),
                     Drop(components, self.n), <<>>)

\* or_.try_parse keeping the first failing outcome instead of the last.
RECURSIVE or_for_first_failure(_, _, _, _)
or_for_first_failure(self, components, i, r) ==
    IF i > Len(self.children)
    THEN IF self.children # <<>> THEN r ELSE fail(<<>>, <<>>)
    ELSE LET r1 == try_parse(self.children[i], components)
         IN IF r1.succeeded THEN r1
            ELSE or_for_first_failure(self, components, i + 1,
                                      IF i = 1 THEN r1 ELSE r)

\* The loop of or_.try_parse from child i on; r is the previous child's
\* outcome.
RECURSIVE or_for(_, _, _, _)
or_for(self, components, i, r) ==
    IF i > Len(self.children)
    THEN IF self.children # <<>> THEN r ELSE fail(<<>>, <<>>)
    ELSE LET r1 == try_parse(self.children[i], components)
         IN IF r1.succeeded THEN r1 ELSE or_for(self, components, i + 1, r1)

or_try_parse(self, components) == or_for(self, components, 1, None)

\* A filter that drops only when a sentinel other than None was given.
Kept_if_configured(values, throw_away) ==
    IF throw_away = None THEN values
    ELSE SelectSeq(values, LAMBDA v : v # throw_away)

\* [v for v in values if v != self._throw_away]
Kept(values, throw_away) == SelectSeq(values, LAMBDA v : v # throw_away)

\* seq.try_parse going on to the next child when one fails.
RECURSIVE seq_for_continue(_, _, _, _)
seq_for_continue(self, i, values, remaining_components) ==
    IF i > Len(self.children)
    THEN ParseResult(TRUE, List(SelectSeq(values, LAMBDA v : v # self.throw_away)),
                     remaining_components, <<>>)
    ELSE LET r == try_parse(self.children[i], remaining_components)
         IN IF ~r.succeeded
            THEN seq_for_continue(self, i + 1, values, remaining_components)
            ELSE seq_for_continue(self, i + 1, Append(values, r.value), r.rest)

\* The loop of seq.try_parse from child i on.
RECURSIVE seq_for(_, _, _, _)
seq_for(self, i, values, remaining_components) ==
    IF i > Len(self.children)
    THEN ParseResult(TRUE, List(Kept(values, self.throw_away)),
                     remaining_components, <<>>)
    ELSE LET r == try_parse(self.children[i], remaining_components)
         IN IF ~r.succeeded
            THEN ParseResult(FALSE, List(Kept(values, self.throw_away)),
                             r.rest, r.expects)
            ELSE seq_for(self, i + 1, Append(values, r.value), r.rest)

seq_try_parse(self, components) == seq_for(self, 1, <<>>, components)

\* optional.try_parse keeping the failed child's remainder.
optional_try_parse_keeps_rest(self, components) ==
    LET r == try_parse(self.p, components)
    IN IF r.succeeded THEN r
       ELSE ParseResult(TRUE, self.default, r.rest, <<>>)

optional_try_parse(self, components) ==
    LET r == try_parse(self.p, components)
    IN IF r.succeeded THEN r
       ELSE ParseResult(TRUE, self.default, components, <<>>)

\* named(value, name) and drop(value).
Apply(self, value) ==
    IF self.f = "named" THEN Dict(self.name, value) ELSE None

transformer_try_parse(self, components) ==
    LET r == try_parse(self.p, components)
    IN IF r.succeeded THEN ParseResult(TRUE, Apply(self, r.value), r.rest, <<>>)
       ELSE r

\* many.try_parse with `if` for `while`: the child is applied at most once.
many_once(self, values, remaining_components) ==
    IF remaining_components = <<>>
    THEN ParseResult(TRUE, List(values), remaining_components, <<>>)
    ELSE LET r == try_parse(self.p, remaining_components)
         IN IF ~r.succeeded
            THEN ParseResult(TRUE, List(values), remaining_components, <<>>)
            ELSE ParseResult(TRUE, List(Append(values, r.value)), r.rest, <<>>)

\* The while loop of many.try_parse.
RECURSIVE many_while(_, _, _)
many_while(self, values, remaining_components) ==
    IF remaining_components = <<>>
    THEN ParseResult(TRUE, List(values), remaining_components, <<>>)
    ELSE LET r == try_parse(self.p, remaining_components)
         IN IF ~r.succeeded
            THEN ParseResult(TRUE, List(values), remaining_components, <<>>)
            ELSE many_while(self, Append(values, r.value), r.rest)

many_try_parse(self, components) == many_while(self, <<>>, components)

try_parse(self, components) ==
    CASE self.kind = "only" -> only_try_parse(self, components)
      [] self.kind = "any_" -> any_try_parse(self, components)
      [] self.kind = "not_" -> not_try_parse(self, components)
      [] self.kind = "or_" -> or_try_parse(self, components)
      [] self.kind = "seq" -> seq_try_parse(self, components)
      [] self.kind = "optional" -> optional_try_parse(self, components)
      [] self.kind = "transformer" -> transformer_try_parse(self, components)
      [] self.kind = "many" -> many_try_parse(self, components)

\* Parser.parse that ignores partial.
parse_strict(self, components, partial) ==
    LET res == try_parse(self, components)
    IN IF res.succeeded /\ res.rest = <<>>
       THEN [returned |-> TRUE, value |-> res.value]
       ELSE IF res.succeeded
       THEN [returned |-> FALSE, message |-> "Expected end of input; got ",
             expects |-> <<>>, rest |-> res.rest]
       ELSE [returned |-> FALSE, message |-> "Expected one of ",
             expects |-> res.expects, rest |-> res.rest]

\* Parser.parse: the value, or the ValueError raised.
parse(self, components, partial) ==
    LET res == try_parse(self, components)
    IN IF res.succeeded /\ (partial \/ res.rest = <<>>)
       THEN [returned |-> TRUE, value |-> res.value]
       ELSE IF res.succeeded
       THEN [returned |-> FALSE, message |-> "Expected end of input; got ",
             expects |-> <<>>, rest |-> res.rest]
       ELSE [returned |-> FALSE, message |-> "Expected one of ",
             expects |-> res.expects, rest |-> res.rest]

\* ---------------------------------------------------------- possible_next
\* Parser.possible_next, inherited by only, any_ and not_.
Parser_possible_next(self, components) ==
    LET r == try_parse(self, components)
    IN IF ~r.succeeded /\ (components = <<>> \/ r.rest # components)
       THEN r.expects
       ELSE <<>>

\* `ex not in res`
NotIn(ex, res) == \A j \in 1..Len(res) : res[j] # ex

\* The merge of or_.possible_next without the `not in` test.
or_append_all(res, exs, j) == res \o exs

\* for ex in exs: if ex not in res: res.append(ex)
RECURSIVE or_append(_, _, _)
or_append(res, exs, j) ==
    IF j > Len(exs) THEN res
    ELSE or_append(IF NotIn(exs[j], res) THEN Append(res, exs[j]) ELSE res,
                   exs, j + 1)

\* The loop of or_.possible_next from child i on.
RECURSIVE or_next_for(_, _, _, _)
or_next_for(self, components, i, res) ==
    IF i > Len(self.children) THEN res
    ELSE or_next_for(self, components, i + 1,
             or_append(res, possible_next(self.children[i], components), 1))

or_possible_next(self, components) == or_next_for(self, components, 1, <<>>)

\* The loop of seq.possible_next from child i on.
RECURSIVE seq_next_for(_, _, _, _)
seq_next_for(self, i, res, remaining_components) ==
    IF i > Len(self.children) THEN res
    ELSE LET res1 == res \o possible_next(self.children[i], remaining_components)
             r == try_parse(self.children[i], remaining_components)
         IN IF ~r.succeeded THEN res1
            ELSE seq_next_for(self, i + 1, res1, r.rest)

seq_possible_next(self, components) == seq_next_for(self, 1, <<>>, components)

optional_possible_next(self, components) == possible_next(self.p, components)

transformer_possible_next(self, components) == possible_next(self.p, components)

\* The while loop of many.possible_next.
RECURSIVE many_next_while(_, _)
many_next_while(self, remaining_components) ==
    IF remaining_components = <<>>
    THEN possible_next(self.p, remaining_components)
    ELSE LET r == try_parse(self.p, remaining_components)
         IN IF ~r.succeeded
            THEN possible_next(self.p, remaining_components)
            ELSE many_next_while(self, r.rest)

many_possible_next(self, components) == many_next_while(self, components)

possible_next(self, components) ==
    CASE self.kind = "or_" -> or_possible_next(self, components)
      [] self.kind = "seq" -> seq_possible_next(self, components)
      [] self.kind = "optional" -> optional_possible_next(self, components)
      [] self.kind = "transformer" -> transformer_possible_next(self, components)
      [] self.kind = "many" -> many_possible_next(self, components)
      [] OTHER -> Parser_possible_next(self, components)

\* ------------------------------------------------- parser trees and inputs
RECURSIVE SeqsUpTo(_)
SeqsUpTo(n) ==
    IF n = 0 THEN {<<>>}
    ELSE LET shorter == SeqsUpTo(n - 1)
         IN shorter \cup {Append(s, x) : s \in {q \in shorter : Len(q) = n - 1},
                                          x \in Tokens}

Inputs == SeqsUpTo(MaxLen)

\* Values used as optional's default and as seq's throw-away sentinel.
Sentinels == {None, Tok(1)}

Leaves == {only(v) : v \in Tokens} \cup {any_}

\* A parser wrapped by each one-child constructor except many.
Wrapped(S) ==
    {not_(p, n) : p \in S, n \in 0..MaxN}
    \cup {optional(p, d) : p \in S, d \in Sentinels}
    \cup {named(p, "a") : p \in S}
    \cup {drop(p) : p \in S}

Pairs(S) == {<<>>} \cup {<<p>> : p \in S} \cup {<<p, q>> : p \in S, q \in S}

\* Parsers that consume a token whenever they succeed.
Consuming ==
    Leaves
    \cup {not_(p, 1) : p \in Leaves}
    \cup {seq(<<p, q>>, None) : p \in Leaves, q \in Leaves}
    \cup {or_(<<p, q>>) : p \in Leaves, q \in Leaves}

\* Parsers that can succeed without consuming a token.
Lookahead ==
    {optional(p, None) : p \in Leaves}
    \cup {not_(p, 0) : p \in Leaves}
    \cup {not_(not_(p, 0), 0) : p \in Leaves}

ZeroWidth ==
    Lookahead
    \cup {many(p) : p \in Leaves}
    \cup {seq(<<>>, None)}
    \cup {seq(<<not_(not_(p, 0), 0), optional(only(1), None)>>, None) : p \in Leaves}
    \cup {or_(<<p, not_(not_(q, 0), 0)>>) : p \in Leaves, q \in Leaves}

Simple == Leaves \cup Wrapped(Leaves) \cup {many(p) : p \in Leaves}

Composite ==
    {seq(ps, d) : ps \in Pairs(Simple), d \in Sentinels}
    \cup {or_(ps) : ps \in Pairs(Simple)}

\* seq and or_ built by chains of + and |: the nested node is flattened.
Chains ==
    {seq(<<seq(<<p, q>>, None), r>>, None) : p \in Leaves, q \in Leaves, r \in Leaves}
    \cup {or_(<<or_(<<p, q>>), r>>) : p \in Leaves, q \in Leaves, r \in Leaves}

\* The trees try_parse, parse and possible_next are applied to: every many
\* in them has a child that consumes a token whenever it succeeds, so every
\* call returns.
Parsers ==
    Simple \cup Composite \cup Chains
    \cup {many(p) : p \in Consuming}
    \cup {optional(p, d) : p \in Consuming, d \in Sentinels}
    \cup {not_(p, n) : p \in Consuming, n \in 0..MaxN}
    \cup {not_(not_(p, 0), 0) : p \in Simple \cup Consuming}

\* The trees try_parse is run on step by step: many over children of both
\* sorts, alone and below each other constructor.
Repeated == {many(p) : p \in Leaves \cup Lookahead}

RunParsers ==
    Simple
    \cup {many(p) : p \in Consuming \cup ZeroWidth}
    \cup Wrapped(Repeated)
    \cup {many(p) : p \in Repeated}
    \cup {seq(<<p, only(1)>>, None) : p \in Repeated}
    \cup {or_(<<only(1), p>>) : p \in Repeated}

\* ------------------------------------------------------------ the machine
VARIABLES
    parser,      \* the parser tree built by the caller
    components,  \* the input sequence
    called,      \* the method called on parser
    partial,     \* parse's partial argument
    result,      \* what the last call returned (or raised)
    stack        \* the frames of the try_parse calls in progress

vars == <<parser, components, called, partial, result, stack>>

Init ==
    /\ parser \in Parsers
    /\ components \in Inputs
    /\ called = "none"
    /\ partial = FALSE
    /\ result = None
    /\ stack = <<>>

TryParse ==
    /\ called = "none"
    /\ called' = "try_parse"
    /\ result' = try_parse(parser, components)
    /\ UNCHANGED <<parser, components, partial, stack>>

\* try_parse applied again to the remainder the first call left.
TryParseRest ==
    /\ called = "try_parse"
    /\ called' = "try_parse_rest"
    /\ result' = [first |-> result, second |-> try_parse(parser, result.rest)]
    /\ UNCHANGED <<parser, components, partial, stack>>

Parse ==
    /\ called = "none"
    /\ \E b \in BOOLEAN :
        /\ partial' = b
        /\ result' = parse(parser, components, b)
    /\ called' = "parse"
    /\ UNCHANGED <<parser, components, stack>>

PossibleNext ==
    /\ called = "none"
    /\ called' = "possible_next"
    /\ result' = possible_next(parser, components)
    /\ UNCHANGED <<parser, components, partial, stack>>

Next == TryParse \/ TryParseRest \/ Parse \/ PossibleNext

Spec == Init /\ [][Next]_vars

\* ------------------------------------------- try_parse, one step at a time
\* The same methods run as the interpreter runs them: a frame per call in
\* progress, holding the call's arguments, its locals and where it stands
\* ("start": at the head of its body or loop; "called": its child has just
\* returned and result holds the child's outcome).
Frame(p, c) ==
    [self |-> p, components |-> c, pc |-> "start", i |-> 1, values |-> <<>>,
     remaining_components |-> c, r |-> None]

Top == stack[Len(stack)]

At(kind, pc) ==
    /\ called = "run"
    /\ stack # <<>>
    /\ Top.self.kind = kind
    /\ Top.pc = pc

\* return outcome: the frame is popped and the caller finds the outcome.
Return(outcome) ==
    /\ stack' = Take(stack, Len(stack) - 1)
    /\ result' = outcome
    /\ UNCHANGED <<parser, components, called, partial>>

\* p.try_parse(c): the caller's frame becomes f and the callee's is pushed.
Call(f, p, c) ==
    /\ stack' = Append([stack EXCEPT ![Len(stack)] = f], Frame(p, c))
    /\ UNCHANGED <<parser, components, called, partial, result>>

\* The frame goes on as f without calling or returning.
Goto(f) ==
    /\ stack' = [stack EXCEPT ![Len(stack)] = f]
    /\ UNCHANGED <<parser, components, called, partial, result>>

\* values.append(v).  A loop that returns appends at most one value per
\* token of its input; the list is not grown past that, so that a loop that
\* never returns comes back to a state it was in.
Appended(values, v) ==
    IF Len(values) < MaxLen THEN Append(values, v) ELSE values

RunInit ==
    /\ parser \in RunParsers
    /\ components \in Inputs
    /\ called = "run"
    /\ partial = FALSE
    /\ result = None
    /\ stack = <<Frame(parser, components)>>

RunOnly ==
    /\ At("only", "start")
    /\ Return(only_try_parse(Top.self, Top.components))

RunAny ==
    /\ At("any_", "start")
    /\ Return(any_try_parse(Top.self, Top.components))

RunNotCall ==
    /\ At("not_", "start")
    /\ Call([Top EXCEPT !.pc = "called"], Top.self.p, Top.components)

RunNotReturn ==
    /\ At("not_", "called")
    /\ Return(IF result.succeeded \/ Len(Top.components) < Top.self.n
              THEN fail(<<Top.self.fake_name>>, Top.components)
              ELSE ParseResult(TRUE, List(Toks(Take(Top.components, Top.self.n))),
                               Drop(Top.components, Top.self.n), <<>>))

RunOrNext ==
    /\ At("or_", "start")
    /\ IF Top.i > Len(Top.self.children)
       THEN Return(IF Top.self.children # <<>> THEN Top.r ELSE fail(<<>>, <<>>))
       ELSE Call([Top EXCEPT !.pc = "called"], Top.self.children[Top.i],
                 Top.components)

RunOrResume ==
    /\ At("or_", "called")
    /\ IF result.succeeded
       THEN Return(result)
       ELSE Goto([Top EXCEPT !.pc = "start", !.i = @ + 1, !.r = result])

RunSeqNext ==
    /\ At("seq", "start")
    /\ IF Top.i > Len(Top.self.children)
       THEN Return(ParseResult(TRUE, List(Kept(Top.values, Top.self.throw_away)),
                               Top.remaining_components, <<>>))
       ELSE Call([Top EXCEPT !.pc = "called"], Top.self.children[Top.i],
                 Top.remaining_components)

RunSeqResume ==
    /\ At("seq", "called")
    /\ IF ~result.succeeded
       THEN Return(ParseResult(FALSE, List(Kept(Top.values, Top.self.throw_away)),
                               result.rest, result.expects))
       ELSE Goto([Top EXCEPT !.pc = "start", !.i = @ + 1,
                             !.values = Append(@, result.value),
                             !.remaining_components = result.rest])

RunOptionalCall ==
    /\ At("optional", "start")
    /\ Call([Top EXCEPT !.pc = "called"], Top.self.p, Top.components)

RunOptionalReturn ==
    /\ At("optional", "called")
    /\ Return(IF result.succeeded THEN result
              ELSE ParseResult(TRUE, Top.self.default, Top.components, <<>>))

RunTransformerCall ==
    /\ At("transformer", "start")
    /\ Call([Top EXCEPT !.pc = "called"], Top.self.p, Top.components)

RunTransformerReturn ==
    /\ At("transformer", "called")
    /\ Return(IF result.succeeded
              THEN ParseResult(TRUE, Apply(Top.self, result.value), result.rest, <<>>)
              ELSE result)

\* The head of many's while loop: the test, then the call of the child.
RunManyNext ==
    /\ At("many", "start")
    /\ IF Top.remaining_components = <<>>
       THEN Return(ParseResult(TRUE, List(Top.values), Top.remaining_components, <<>>))
       ELSE Call([Top EXCEPT !.pc = "called"], Top.self.p, Top.remaining_components)

\* many's loop that goes round again when its child fails.
RunManyResume_no_break ==
    /\ At("many", "called")
    /\ Goto([Top EXCEPT !.pc = "start",
                        !.values = IF result.succeeded THEN Appended(@, result.value) ELSE @,
                        !.remaining_components =
                            IF result.succeeded THEN result.rest ELSE @])

\* The rest of many's loop body: break, or append and go round again.
RunManyResume ==
    /\ At("many", "called")
    /\ IF ~result.succeeded
       THEN Return(ParseResult(TRUE, List(Top.values), Top.remaining_components, <<>>))
       ELSE Goto([Top EXCEPT !.pc = "start",
                             !.values = Appended(@, result.value),
                             !.remaining_components = result.rest])

RunNext ==
    \/ RunOnly \/ RunAny
    \/ RunNotCall \/ RunNotReturn
    \/ RunOrNext \/ RunOrResume
    \/ RunSeqNext \/ RunSeqResume
    \/ RunOptionalCall \/ RunOptionalReturn
    \/ RunTransformerCall \/ RunTransformerReturn
    \/ RunManyNext \/ RunManyResume

\* The interpreter always takes the next step of a call in progress.
RunSpec == RunInit /\ [][RunNext]_vars /\ WF_vars(RunNext)

\* The top-level call has returned.
RunDone == called = "run" /\ stack = <<>>

\* The step-by-step run returns what try_parse computes.
RunAgrees == RunDone => result = try_parse(parser, components)

\* ------------------------------------------------------------- properties
IsSuffix(r, s) == \E k \in 0..Len(s) : r = Drop(s, k)

Min(S) == CHOOSE x \in S : \A y \in S : x <= y

\* The input child j of a concatenation is given when every child before it
\* succeeded: the whole input for the first, the previous child's remainder
\* for the others.
RECURSIVE GivenTo(_, _, _)
GivenTo(cs, s, j) ==
    IF j = 1 THEN s ELSE try_parse(cs[j - 1], GivenTo(cs, s, j - 1)).rest

ChildOutcome(cs, s, j) == try_parse(cs[j], GivenTo(cs, s, j))

\* The children that fail after every child before them succeeded (at most
\* one).
FirstFailing(cs, s) ==
    {j \in 1..Len(cs) :
        /\ ~ChildOutcome(cs, s, j).succeeded
        /\ \A m \in 1..(j - 1) : ChildOutcome(cs, s, m).succeeded}

\* The entries of vs other than x, in order: entry m is the m-th of the
\* positions of vs that hold something other than x.
Without(vs, x) ==
    LET keep == {j \in 1..Len(vs) : vs[j] # x}
    IN [m \in 1..Cardinality(keep) |->
           vs[CHOOSE j \in keep : Cardinality({q \in keep : q <= j}) = m]]

NoDuplicates(xs) == \A a \in 1..Len(xs) : \A b \in 1..Len(xs) : xs[a] = xs[b] => a = b

\* xs without the later occurrences of each entry.
FirstSeen(xs) ==
    LET first == {j \in 1..Len(xs) : \A q \in 1..(j - 1) : xs[q] # xs[j]}
    IN [m \in 1..Cardinality(first) |->
           xs[CHOOSE j \in first : Cardinality({q \in first : q <= j}) = m]]

RECURSIVE Concatenated(_, _)
Concatenated(lists, j) ==
    IF j > Len(lists) THEN <<>> ELSE lists[j] \o Concatenated(lists, j + 1)

\* C1: the rest of the outcome try_parse returns, on success and on failure,
\* is a suffix of the input sequence.
RestIsSuffix ==
    called = "try_parse" => IsSuffix(result.rest, components)

\* A concatenation that failed at a later child after consuming tokens.
RestIsSuffixWitness ==
    /\ called = "try_parse"
    /\ ~result.succeeded
    /\ result.rest # components
    /\ result.rest # <<>>
    /\ IsSuffix(result.rest, components)

\* C2: parse returns the value exactly when try_parse succeeded and (partial
\* or nothing remains); a success with a remainder and no partial raises
\* 'Expected end of input' with the remainder; a failure raises 'Expected
\* one of' with the outcome's expects and remainder, whatever partial is.
ParseContract ==
    called = "parse" =>
        LET res == try_parse(parser, components)
        IN /\ result.returned <=> (res.succeeded /\ (partial \/ res.rest = <<>>))
           /\ result.returned => result.value = res.value
           /\ (res.succeeded /\ ~partial /\ res.rest # <<>>) =>
                 /\ result.message = "Expected end of input; got "
                 /\ result.rest = res.rest
           /\ ~res.succeeded =>
                 /\ result.message = "Expected one of "
                 /\ result.expects = res.expects
                 /\ result.rest = res.rest

\* parse with partial returned a value although input remains.
ParseContractWitness ==
    /\ called = "parse"
    /\ partial
    /\ result.returned
    /\ try_parse(parser, components).rest # <<>>

\* C3: seq.try_parse gives each child the previous child's remainder, in
\* list order; it fails with exactly the expects and rest of the first child
\* that fails, and succeeds with the last child's remainder when none does.
SeqInOrder ==
    (called = "try_parse" /\ parser.kind = "seq") =>
        LET cs == parser.children
            ff == FirstFailing(cs, components)
        IN IF ff # {}
           THEN \A k \in ff :
                   /\ ~result.succeeded
                   /\ result.expects = ChildOutcome(cs, components, k).expects
                   /\ result.rest = ChildOutcome(cs, components, k).rest
           ELSE /\ result.succeeded
                /\ result.rest = GivenTo(cs, components, Len(cs) + 1)

\* A concatenation of three whose second child failed on the first child's
\* remainder, where the third child would have succeeded on it.
SeqInOrderWitness ==
    /\ called = "try_parse"
    /\ parser.kind = "seq"
    /\ Len(parser.children) = 3
    /\ FirstFailing(parser.children, components) = {2}
    /\ GivenTo(parser.children, components, 2) # components
    /\ try_parse(parser.children[3], GivenTo(parser.children, components, 2)).succeeded
    /\ ~result.succeeded

\* C4 as stated: a successful seq drops a child's value only when a
\* throw-away sentinel was configured and the value equals it; without one
\* the value list has one entry per child.
SeqDropsOnlyConfigured ==
    (called = "try_parse" /\ parser.kind = "seq" /\ result.succeeded) =>
        LET cs == parser.children
            vals == [j \in 1..Len(cs) |-> ChildOutcome(cs, components, j).value]
        IN IF parser.throw_away = None
           THEN result.value = List(vals)
           ELSE result.value = List(Without(vals, parser.throw_away))

\* C4 as amended: a successful seq's value is the list of its children's
\* values, in child order, without those equal to its throw-away sentinel,
\* which is None when none was configured.
SeqDropsSentinel ==
    (called = "try_parse" /\ parser.kind = "seq" /\ result.succeeded) =>
        LET cs == parser.children
            vals == [j \in 1..Len(cs) |-> ChildOutcome(cs, components, j).value]
        IN /\ result.value = List(Without(vals, parser.throw_away))
           /\ Len(result.value.items) =
                 Cardinality({j \in 1..Len(cs) : vals[j] # parser.throw_away})

\* A seq built without a sentinel whose child produced None: its value list
\* is shorter than its list of children.
SeqDropsSentinelWitness ==
    /\ called = "try_parse"
    /\ parser.kind = "seq"
    /\ parser.throw_away = None
    /\ result.succeeded
    /\ Len(parser.children) = 2
    /\ Len(result.value.items) = 1

\* C5: or_.try_parse returns the outcome of the first child, in list order,
\* that succeeds on the input; the last child's outcome when all fail; a
\* failure with empty expects when it has no children.
OrFirstMatch ==
    (called = "try_parse" /\ parser.kind = "or_") =>
        LET cs == parser.children
            winners == {j \in 1..Len(cs) : try_parse(cs[j], components).succeeded}
        IN IF cs = <<>>
           THEN ~result.succeeded /\ result.expects = <<>>
           ELSE IF winners # {}
           THEN result = try_parse(cs[Min(winners)], components)
           ELSE result = try_parse(cs[Len(cs)], components)

\* Two children succeed, the later one consuming more: the first wins.
OrFirstMatchWitness ==
    /\ called = "try_parse"
    /\ parser.kind = "or_"
    /\ Len(parser.children) = 2
    /\ try_parse(parser.children[1], components).succeeded
    /\ try_parse(parser.children[2], components).succeeded
    /\ Len(try_parse(parser.children[2], components).rest) < Len(result.rest)

\* C7: optional(p, default).try_parse succeeds on every input: with p's
\* outcome when p succeeds, and with the default, the whole input as rest
\* and empty expects when p fails.
OptionalNeverFails ==
    (called = "try_parse" /\ parser.kind = "optional") =>
        LET r == try_parse(parser.p, components)
        IN /\ result.succeeded
           /\ r.succeeded => result = r
           /\ ~r.succeeded =>
                 /\ result.value = parser.default
                 /\ result.rest = components
                 /\ result.expects = <<>>

\* The child failed after consuming a token, and optional gave it back.
OptionalNeverFailsWitness ==
    /\ called = "try_parse"
    /\ parser.kind = "optional"
    /\ ~try_parse(parser.p, components).succeeded
    /\ try_parse(parser.p, components).rest # components
    /\ result.rest = components

\* C8: for a child that consumes a token whenever it succeeds, many(p)
\* succeeds, and applied again to the remainder it left it succeeds with the
\* empty list and the same remainder.
ManyIdempotent ==
    (called = "try_parse_rest" /\ parser.kind = "many") =>
        /\ result.first.succeeded
        /\ result.second.succeeded
        /\ result.second.value = List(<<>>)
        /\ result.second.rest = result.first.rest

\* many consumed two tokens and stopped before a third.
ManyIdempotentWitness ==
    /\ called = "try_parse_rest"
    /\ parser.kind = "many"
    /\ Len(result.first.value.items) >= 2
    /\ result.first.rest # <<>>
    /\ result.second.value = List(<<>>)

\* C9: not_(p, n) succeeds exactly when p fails on the input and at least n
\* tokens remain, consuming the first n and producing them as a list; so
\* not_(not_(p)) succeeds exactly when p succeeds, consuming nothing.
NotLookahead ==
    (called = "try_parse" /\ parser.kind = "not_") =>
        /\ result.succeeded <=>
              (~try_parse(parser.p, components).succeeded /\ Len(components) >= parser.n)
        /\ result.succeeded =>
              /\ result.rest = Drop(components, parser.n)
              /\ result.value = List(Toks(Take(components, parser.n)))
              /\ Toks(components) = result.value.items \o Toks(result.rest)
        /\ (parser.n = 0 /\ parser.p.kind = "not_" /\ parser.p.n = 0) =>
              /\ result.succeeded <=> try_parse(parser.p.p, components).succeeded
              /\ result.succeeded => result.rest = components

\* not_(not_(p)) succeeded where p alone would have consumed a token.
NotLookaheadWitness ==
    /\ called = "try_parse"
    /\ parser.kind = "not_"
    /\ parser.n = 0
    /\ parser.p.kind = "not_"
    /\ parser.p.n = 0
    /\ result.succeeded
    /\ result.rest = components
    /\ try_parse(parser.p.p, components).rest # components

\* C10 as stated: the list possible_next returns for an or_ or a seq holds
\* no entry twice.
MergedNextHasNoDuplicates ==
    (called = "possible_next" /\ parser.kind \in {"or_", "seq"}) =>
        NoDuplicates(result)

\* C10 as amended: the list possible_next returns for an or_ holds no entry
\* twice: it is its children's lists, in child order, each entry kept where
\* it is first seen.  (seq.possible_next concatenates its children's lists.)
OrNextHasNoDuplicates ==
    (called = "possible_next" /\ parser.kind = "or_") =>
        LET cs == parser.children
            lists == [j \in 1..Len(cs) |-> possible_next(cs[j], components)]
        IN /\ NoDuplicates(result)
           /\ result = FirstSeen(Concatenated(lists, 1))

\* Two children of an or_ suggest the same token and it is listed once.
OrNextHasNoDuplicatesWitness ==
    /\ called = "possible_next"
    /\ parser.kind = "or_"
    /\ Len(parser.children) = 2
    /\ possible_next(parser.children[1], components) # <<>>
    /\ possible_next(parser.children[1], components)
          = possible_next(parser.children[2], components)
    /\ result = possible_next(parser.children[1], components)

\* Some many of the tree logged the warning when it was built.
RECURSIVE Warned(_)
Warned(p) ==
    CASE p.kind = "many" -> p.warned \/ Warned(p.p)
      [] p.kind \in {"not_", "optional", "transformer"} -> Warned(p.p)
      [] p.kind \in {"or_", "seq"} -> \E j \in 1..Len(p.children) : Warned(p.children[j])
      [] OTHER -> FALSE

\* The child of a many has just succeeded on a remainder that is not empty
\* and has left all of it.
ZeroWidthIteration ==
    /\ At("many", "called")
    /\ result.succeeded
    /\ result.rest = Top.remaining_components

\* C6 as stated: a try_parse call returns unless some many of the tree
\* warned, when it was built, that its child succeeds on the empty sequence.
ReturnsUnlessWarned == <>(RunDone \/ Warned(parser))

\* C6 as amended: a try_parse call returns unless some many of the tree
\* comes to an iteration in which its child succeeds on the remainder, which
\* is not empty, without consuming any of it.
ReturnsUnlessZeroWidth == <>(RunDone \/ ZeroWidthIteration)

\* A many that did not warn went round its loop twice and returned.
ReturnsWitness ==
    /\ RunDone
    /\ parser.kind = "many"
    /\ ~Warned(parser)
    /\ Len(components) = MaxLen
    /\ Len(result.value.items) >= 2

====
